---- MODULE Spec2Model ----
(***************************************************************************)
(* Model of src/src/venv_manager.py: a Tk front end whose button handlers  *)
(* spawn child processes (package manager, venv, pip, pip-tools, a user    *)
(* shell command) and append text to one ScrolledText widget.              *)
(*                                                                         *)
(* Text is modelled as a sequence of tokens; string concatenation is \o.   *)
(* A fixed message of the source is a single token, text that comes from   *)
(* outside (a child's output, the command typed by the user) is a sequence *)
(* of one-character tokens.  "\n" is the line separator.                   *)
(*                                                                         *)
(* A handler is a sequential composition of steps over a context record;   *)
(* once a step raises, the remaining steps of the handler are skipped, as  *)
(* Python does, and Tk's callback wrapper returns to the main loop.        *)
(***************************************************************************)
EXTENDS Integers, Sequences, FiniteSets, TLC

\* ---------------------------------------------------------------- bounds
MaxLogLen == 4     \* a handler is started only while the buffer is shorter
MaxOutLen == 1     \* longest stdout / stderr text a child writes

\* -------------------------------------------------------------- settings
PYTHON_VERSION    == "3.11"
PIP_TOOLS_VERSION == "7.4.1"
REQUIREMENTS_FILE == "requirements.in"
VENV_NAME         == "venv_running"

VARIABLES
    os_name,          \* platform.system() of the host
    environ,          \* os.environ, a dict: variable name -> text
    venv_exists,      \* the directory VENV_NAME holds a created environment
    shell_entry,      \* text of the command field
    terminal_output,  \* contents of the log widget
    selected_tab,     \* tab shown by the notebook
    handler,          \* the handler that ran last
    events,           \* what that handler did, in order
    raised            \* the exception it ended with, "none" if it returned

vars == <<os_name, environ, venv_exists, shell_entry, terminal_output,
          selected_tab, handler, events, raised>>

NL == "\n"

SeqsUpTo(S, n) == UNION {[1..k -> S] : k \in 0..n}

\* s is a prefix / suffix of t
IsPrefix(s, t) == Len(s) <= Len(t) /\ SubSeq(t, 1, Len(s)) = s
IsSuffix(s, t) == Len(s) <= Len(t) /\ SubSeq(t, Len(t) - Len(s) + 1, Len(t)) = s

\* ------------------------------------------------------------ the host
OsNames == {"Linux", "Darwin", "Windows", "FreeBSD"}

\* os.environ with and without a PATH entry
NoEnviron == [v \in {} |-> <<>>]
Environs  == {NoEnviron} \cup {[v \in {"PATH"} |-> p] : p \in {<<"/usr/bin">>}}

\* os.sep and os.pathsep of the host
os_sep     == IF os_name = "Windows" THEN "\\" ELSE "/"
os_pathsep == IF os_name = "Windows" THEN ";" ELSE ":"

\* os.path.join of non-empty relative components
RECURSIVE os_path_join(_)
os_path_join(parts) ==
    IF Len(parts) = 0 THEN <<>>
    ELSE IF Len(parts) = 1 THEN <<parts[1]>>
    ELSE <<parts[1], os_sep>> \o os_path_join(Tail(parts))

get_os_info == <<os_name, "release", "version">>

sys_executable == <<"python">>

\* str.strip(): leading and trailing whitespace removed
IsSpace(c) == c \in {" ", "\t", NL, "\r"}

RECURSIVE lstrip(_)
lstrip(s) == IF s # <<>> /\ IsSpace(Head(s)) THEN lstrip(Tail(s)) ELSE s

RECURSIVE rstrip(_)
rstrip(s) ==
    IF s # <<>> /\ IsSpace(s[Len(s)]) THEN rstrip(SubSeq(s, 1, Len(s) - 1)) ELSE s

\* the test "if not cmd:" in place of "if not cmd.strip():"
strip_nothing(s) == s

strip(s) == rstrip(lstrip(s))

\* ------------------------------------------------- child process outcomes
\* what the operating system does with one subprocess.run call: the
\* executable is not found, or the child runs and exits with a code, having
\* written stdout and stderr
OutTexts == SeqsUpTo({"a"}, MaxOutLen)
\* the texts the user types: empty, whitespace only, and commands with and
\* without surrounding whitespace
CmdTexts == {<<>>, <<" ">>, <<"\t", " ">>, <<"x">>, <<" ", "x">>, <<"x", " ">>}
Missing  == [found |-> FALSE, rc |-> 0, out |-> <<>>, err |-> <<>>]
Exits    == [found : {TRUE}, rc : {0, 1}, out : {<<>>}, err : {<<>>}]
Outputs  == [found : {TRUE}, rc : {0, 1}, out : OutTexts, err : OutTexts]

NoResult == [stdout |-> <<>>, stderr |-> <<>>, returncode |-> 0]

\* the context a handler starts in
Start ==
    [log |-> terminal_output, events |-> <<>>, raised |-> "none",
     venv |-> venv_exists, tab |-> selected_tab, environ |-> environ,
     ret |-> <<>>, result |-> NoResult]

Init ==
    /\ os_name \in OsNames
    /\ environ \in Environs
    /\ venv_exists \in BOOLEAN
    /\ shell_entry = <<>>
    /\ terminal_output = <<>>
    /\ selected_tab = "menu"
    /\ handler = "none"
    /\ events = <<>>
    /\ raised = "none"

\* ------------------------------------------------------------- the steps
\* terminal_output.insert(tk.END, text + "\n"); one "log" event per call
\* the widget emptied before the text is inserted
log_to_terminal_replacing(s, text) ==
    IF s.raised # "none" THEN s
    ELSE [s EXCEPT !.log = text \o <<NL>>,
                   !.events = Append(@, [kind |-> "log", text |-> text])]

log_to_terminal(s, text) ==
    IF s.raised # "none" THEN s
    ELSE [s EXCEPT !.log = @ \o text \o <<NL>>,
                   !.events = Append(@, [kind |-> "log", text |-> text])]

\* argv names a program inside the environment directory
InVenv(argv) == argv[1][1] = VENV_NAME

\* argv is the environment-creation command
IsVenvCreate(argv) == Len(argv) >= 3 /\ argv[2] = <<"-m">> /\ argv[3] = <<"venv">>

\* subprocess.run(argv, shell=..., capture_output=..., env=...) with outcome o.
\* A program path that is not an existing file raises FileNotFoundError (a
\* shell string is handed to the shell, which always exists); a program under
\* the environment directory exists only once the environment was created.
\* Captured output is returned as text, output that is not captured goes to
\* the host's own stdout and stderr.
subprocess_run(s, argv, shell, capture, env, o) ==
    IF s.raised # "none" THEN s
    ELSE IF ~shell /\ (~o.found \/ (InVenv(argv) /\ ~s.venv))
    THEN [s EXCEPT !.raised = "FileNotFoundError",
                   !.events = Append(@, [kind |-> "spawn_failed", argv |-> argv])]
    ELSE [s EXCEPT
            !.events = Append(@, [kind |-> "spawn", argv |-> argv, shell |-> shell,
                                  capture |-> capture, env |-> env, rc |-> o.rc,
                                  out |-> o.out, err |-> o.err]),
            !.venv = @ \/ (~shell /\ IsVenvCreate(argv) /\ o.rc = 0),
            !.result = [stdout |-> IF capture THEN o.out ELSE <<>>,
                        stderr |-> IF capture THEN o.err ELSE <<>>,
                        returncode |-> o.rc]]

\* messagebox.showinfo(title, text)
messagebox_showinfo(s, title, text) ==
    IF s.raised # "none" THEN s
    ELSE [s EXCEPT !.events = Append(@, [kind |-> "messagebox", title |-> title,
                                         text |-> text])]

\* tab_control.select(tab)
tab_control_select(s, tab) ==
    IF s.raised # "none" THEN s ELSE [s EXCEPT !.tab = tab]

\* return value of a function that did not raise
Return(s, v) == IF s.raised # "none" THEN s ELSE [s EXCEPT !.ret = v]

\* --------------------------------------------------------- the functions
install_os_dependencies(s, o1, o2) ==
    LET info == get_os_info
        s1 == log_to_terminal(s, <<"Detected OS: ", info[1], " ", info[2], " ", info[3]>>)
    IN  IF info[1] = "Linux" THEN
            subprocess_run(
                subprocess_run(s1, <<<<"sudo">>, <<"apt-get">>, <<"update">>>>,
                               FALSE, FALSE, s1.environ, o1),
                <<<<"sudo">>, <<"apt-get">>, <<"install">>, <<"-y">>,
                  <<"python", PYTHON_VERSION>>, <<"python3-venv">>>>,
                FALSE, FALSE, s1.environ, o2)
        ELSE IF info[1] = "Darwin" THEN
            subprocess_run(s1, <<<<"brew">>, <<"install">>, <<"python@", PYTHON_VERSION>>>>,
                           FALSE, FALSE, s1.environ, o1)
        ELSE IF info[1] = "Windows" THEN
            log_to_terminal(s1, <<"Ensure Python is installed manually on Windows.">>)
        ELSE
            log_to_terminal(s1, <<"Unsupported OS.">>)

\* the binary directory returned instead of the activate script in it
create_venv_no_activate(s, o) ==
    LET s1 == subprocess_run(s, <<sys_executable, <<"-m">>, <<"venv">>, <<VENV_NAME>>>>,
                             FALSE, FALSE, s.environ, o)
        activate_script ==
            os_path_join(<<VENV_NAME,
                           IF os_name = "Windows" THEN "Scripts" ELSE "bin">>)
    IN  Return(s1, activate_script)

create_venv(s, o) ==
    LET s1 == subprocess_run(s, <<sys_executable, <<"-m">>, <<"venv">>, <<VENV_NAME>>>>,
                             FALSE, FALSE, s.environ, o)
        activate_script ==
            os_path_join(<<VENV_NAME,
                           IF os_name = "Windows" THEN "Scripts" ELSE "bin",
                           "activate">>)
    IN  Return(s1, activate_script)

\* "bin" on every platform
install_pip_tools_bin(s, o) ==
    LET pip_path == os_path_join(<<VENV_NAME, "bin", "pip">>)
    IN  subprocess_run(s, <<pip_path, <<"install">>, <<"pip-tools==", PIP_TOOLS_VERSION>>>>,
                       FALSE, FALSE, s.environ, o)

install_pip_tools(s, o) ==
    LET pip_path == os_path_join(<<VENV_NAME,
                                   IF os_name # "Windows" THEN "bin" ELSE "Scripts",
                                   "pip">>)
    IN  subprocess_run(s, <<pip_path, <<"install">>, <<"pip-tools==", PIP_TOOLS_VERSION>>>>,
                       FALSE, FALSE, s.environ, o)

\* stderr logged before stdout
compile_requirements_stderr_first(s, o) ==
    LET pip_compile_path ==
            os_path_join(<<VENV_NAME,
                           IF os_name # "Windows" THEN "bin" ELSE "Scripts",
                           "pip-compile">>)
        s1 == subprocess_run(s, <<pip_compile_path, <<REQUIREMENTS_FILE>>>>,
                             FALSE, TRUE, s.environ, o)
        s2 == IF s1.result.stderr # <<>> THEN log_to_terminal(s1, s1.result.stderr) ELSE s1
    IN  log_to_terminal(s2, s1.result.stdout)

compile_requirements(s, o) ==
    LET pip_compile_path ==
            os_path_join(<<VENV_NAME,
                           IF os_name # "Windows" THEN "bin" ELSE "Scripts",
                           "pip-compile">>)
        s1 == subprocess_run(s, <<pip_compile_path, <<REQUIREMENTS_FILE>>>>,
                             FALSE, TRUE, s.environ, o)
        s2 == log_to_terminal(s1, s1.result.stdout)
    IN  IF s1.result.stderr # <<>> THEN log_to_terminal(s2, s1.result.stderr) ELSE s2

sync_requirements(s, o) ==
    LET pip_sync_path ==
            os_path_join(<<VENV_NAME,
                           IF os_name # "Windows" THEN "bin" ELSE "Scripts",
                           "pip-sync">>)
        s1 == subprocess_run(s, <<pip_sync_path>>, FALSE, TRUE, s.environ, o)
        s2 == log_to_terminal(s1, s1.result.stdout)
    IN  IF s1.result.stderr # <<>> THEN log_to_terminal(s2, s1.result.stderr) ELSE s2

\* the package list taken from stderr
get_installed_packages_stderr(s, o) ==
    LET pip_path == os_path_join(<<VENV_NAME,
                                   IF os_name # "Windows" THEN "bin" ELSE "Scripts",
                                   "pip">>)
        s1 == subprocess_run(s, <<pip_path, <<"list">>>>, FALSE, TRUE, s.environ, o)
    IN  Return(s1, s1.result.stderr)

get_installed_packages(s, o) ==
    LET pip_path == os_path_join(<<VENV_NAME,
                                   IF os_name # "Windows" THEN "bin" ELSE "Scripts",
                                   "pip">>)
        s1 == subprocess_run(s, <<pip_path, <<"list">>>>, FALSE, TRUE, s.environ, o)
    IN  Return(s1, s1.result.stdout)

\* ---------------------------------------------------------- the handlers
\* the handler gives up when the environment could not be created
on_create_venv_checked(s, o1, o2, o3, o4) ==
    LET s1 == log_to_terminal(s, <<"Checking OS dependencies...">>)
        s2 == install_os_dependencies(s1, o1, o2)
        s3 == log_to_terminal(s2, <<"Creating virtual environment...">>)
        s4 == create_venv(s3, o3)
        s5 == log_to_terminal(s4, <<"Virtual environment created at ">> \o s4.ret)
        s6 == log_to_terminal(s5, <<"Installing pip-tools...">>)
        s7 == install_pip_tools(s6, o4)
        s8 == log_to_terminal(s7, <<"pip-tools installed.">>)
    IN  IF s4.raised = "none" /\ s4.result.returncode # 0 THEN s4
        ELSE tab_control_select(s8, "terminal")

on_create_venv(s, o1, o2, o3, o4) ==
    LET s1 == log_to_terminal(s, <<"Checking OS dependencies...">>)
        s2 == install_os_dependencies(s1, o1, o2)
        s3 == log_to_terminal(s2, <<"Creating virtual environment...">>)
        s4 == create_venv(s3, o3)
        s5 == log_to_terminal(s4, <<"Virtual environment created at ">> \o s4.ret)
        s6 == log_to_terminal(s5, <<"Installing pip-tools...">>)
        s7 == install_pip_tools(s6, o4)
        s8 == log_to_terminal(s7, <<"pip-tools installed.">>)
    IN  tab_control_select(s8, "terminal")

on_status(s, o) ==
    LET s1 == get_installed_packages(s, o)
    IN  messagebox_showinfo(s1, <<"Installed Packages">>, s1.ret)

on_compile(s, o) ==
    compile_requirements(log_to_terminal(s, <<"Running pip-compile...">>), o)

on_sync(s, o) ==
    sync_requirements(log_to_terminal(s, <<"Running pip-sync...">>), o)

run_shell_command(s, o) ==
    LET cmd == shell_entry
        s0  == [s EXCEPT !.events = Append(@, [kind |-> "get", text |-> cmd])]
    IN  IF strip(cmd) = <<>> THEN
            log_to_terminal(s0, <<"No command entered.">>)
        ELSE
            LET s1 == log_to_terminal(s0, <<"Executing in venv: ">> \o cmd)
                env == s1.environ
                venv_bin == os_path_join(<<VENV_NAME,
                                           IF os_name = "Windows" THEN "Scripts" ELSE "bin">>)
            IN  IF "PATH" \notin DOMAIN env THEN
                    [s1 EXCEPT !.raised = "KeyError"]
                ELSE
                    LET env2 == [env EXCEPT !["PATH"] = venv_bin \o <<os_pathsep>> \o @]
                        s2 == subprocess_run(s1, <<cmd>>, TRUE, TRUE, env2, o)
                        s3 == IF s2.result.stdout # <<>>
                              THEN log_to_terminal(s2, s2.result.stdout) ELSE s2
                    IN  IF s2.result.stderr # <<>>
                        THEN log_to_terminal(s3, s2.result.stderr) ELSE s3

\* ----------------------------------------------------------- the actions
\* a handler runs to its end (or to the exception it raises) before the
\* main loop takes the next event
CanAct == Len(terminal_output) < MaxLogLen

Commit(name, s) ==
    /\ handler' = name
    /\ terminal_output' = s.log
    /\ events' = s.events
    /\ raised' = s.raised
    /\ venv_exists' = s.venv
    /\ selected_tab' = s.tab
    /\ environ' = s.environ
    /\ UNCHANGED <<os_name, shell_entry>>

\* the user edits the command field
type_command ==
    /\ \E t \in CmdTexts : t # shell_entry /\ shell_entry' = t
    /\ UNCHANGED <<os_name, environ, venv_exists, terminal_output, selected_tab,
                   handler, events, raised>>

\* the outcomes drawn for the calls a handler makes; a call the handler does
\* not reach on this host has no outcome to choose
FirstDepOutcomes  == IF os_name \in {"Linux", "Darwin"} THEN Exits \cup {Missing} ELSE {Missing}
SecondDepOutcomes == IF os_name = "Linux" THEN Exits \cup {Missing} ELSE {Missing}
ShellOutcomes == IF strip(shell_entry) = <<>> \/ "PATH" \notin DOMAIN environ
                 THEN {[found |-> TRUE, rc |-> 0, out |-> <<>>, err |-> <<>>]}
                 ELSE Outputs

click_create ==
    /\ CanAct
    /\ \E o1 \in FirstDepOutcomes, o2 \in SecondDepOutcomes, o3 \in Exits, o4 \in Exits \cup {Missing} :
           \* both apt-get calls go through the same sudo executable
           /\ os_name = "Linux" => o2.found = o1.found
           /\ Commit("on_create_venv", on_create_venv(Start, o1, o2, o3, o4))

click_status ==
    /\ CanAct
    /\ \E o \in Outputs \cup {Missing} : Commit("on_status", on_status(Start, o))

click_compile ==
    /\ CanAct
    /\ \E o \in Outputs \cup {Missing} : Commit("on_compile", on_compile(Start, o))

click_sync ==
    /\ CanAct
    /\ \E o \in Outputs \cup {Missing} : Commit("on_sync", on_sync(Start, o))

click_run_command ==
    /\ CanAct
    /\ \E o \in ShellOutcomes : Commit("run_shell_command", run_shell_command(Start, o))

Next ==
    \/ type_command
    \/ click_create
    \/ click_status
    \/ click_compile
    \/ click_sync
    \/ click_run_command

Spec == Init /\ [][Next]_vars

\* ------------------------------------------------------------ properties
\* a text that is empty or holds whitespace only
IsBlankText(t) == \A i \in 1..Len(t) : IsSpace(t[i])

\* the directory name the platform calls for
PlatformBinDir == IF os_name = "Windows" THEN "Scripts" ELSE "bin"

EventsOfKind(k) == {i \in 1..Len(events) : events[i].kind = k}

\* the command text the last run_shell_command read from the field
CmdRead == events[1].text

NoCommandLine == <<"No command entered.">>

\* C1: when the command field is empty or whitespace only, run_shell_command
\* appends the single line "No command entered." to the buffer and spawns no
\* child process, whatever ran before.
C1_BlankCommandOnlyLogs ==
    (handler = "run_shell_command" /\ IsBlankText(CmdRead)) =>
        /\ events = <<[kind |-> "get", text |-> CmdRead],
                      [kind |-> "log", text |-> NoCommandLine]>>
        /\ IsSuffix(NoCommandLine \o <<NL>>, terminal_output)
        /\ raised = "none"

\* a whitespace-only command was run after an earlier handler had logged
C1_Witness ==
    /\ handler = "run_shell_command"
    /\ CmdRead = <<"\t", " ">>
    /\ Len(terminal_output) > 2
    /\ terminal_output[1] # "No command entered."

\* the child the last handler spawned with its output captured, if any
CapturedSpawns == {i \in EventsOfKind("spawn") : events[i].capture}

\* text + "\n" for a text that is logged, nothing for one that is skipped
Line(text)        == text \o <<NL>>
LineIfAny(text)   == IF text # <<>> THEN Line(text) ELSE <<>>

C3_Original ==
    /\ raised = "none"
    /\ \A i \in EventsOfKind("spawn") : events[i].rc # 0 => events[i].capture

LogsAfter(i) == {events[j].text : j \in {k \in EventsOfKind("log") : k > i}}

ProgressLines ==
    {"Checking OS dependencies...", "Detected OS: ",
     "Ensure Python is installed manually on Windows.", "Unsupported OS.",
     "Creating virtual environment...", "Virtual environment created at ",
     "Installing pip-tools...", "pip-tools installed."}

VenvPrograms ==
    {i \in EventsOfKind("spawn") \cup EventsOfKind("spawn_failed") :
        ~(events[i].kind = "spawn" /\ events[i].shell) /\ InVenv(events[i].argv)}

ShellSpawns == {i \in EventsOfKind("spawn") : events[i].shell}

CreatedLines ==
    {i \in EventsOfKind("log") :
        events[i].text # <<>> /\ events[i].text[1] = "Virtual environment created at "}

\* C5: every path built inside the environment has the environment directory
\* first and directly below it "Scripts" on Windows and "bin" elsewhere: the
\* program paths of pip, pip-compile and pip-sync, the activate path
\* create_venv returns, and the directory run_shell_command puts in front of
\* the child's PATH.
C5_PlatformBinDir ==
    /\ \A i \in VenvPrograms :
        LET path == events[i].argv[1] IN
        Len(path) = 5 /\ SubSeq(path, 1, 4) = <<VENV_NAME, os_sep, PlatformBinDir, os_sep>>
    /\ \A i \in CreatedLines :
        SubSeq(events[i].text, 2, 5) = <<VENV_NAME, os_sep, PlatformBinDir, os_sep>>
    /\ \A i \in ShellSpawns :
        SubSeq(events[i].env["PATH"], 1, 4) = <<VENV_NAME, os_sep, PlatformBinDir, os_pathsep>>

\* on Windows the create action got as far as calling pip
C5_Witness ==
    /\ os_name = "Windows"
    /\ handler = "on_create_venv"
    /\ VenvPrograms # {} /\ CreatedLines # {}

\* C6: once the environment-creation child has run, on_create_venv logs
\* "Virtual environment created at " followed by the environment directory,
\* the platform's binary directory and "activate", joined by the platform's
\* path separator.
C6_ActivatePath ==
    (handler = "on_create_venv"
        /\ \E i \in EventsOfKind("spawn") : IsVenvCreate(events[i].argv)) =>
        \E j \in EventsOfKind("log") :
            /\ events[j].text = <<"Virtual environment created at ", VENV_NAME, os_sep,
                                  PlatformBinDir, os_sep, "activate">>
            /\ CreatedLines = {j}
            /\ events[j - 1].kind = "spawn" /\ IsVenvCreate(events[j - 1].argv)

\* the path was reported on a host that is not Windows
C6_Witness ==
    /\ handler = "on_create_venv" /\ os_name = "Darwin"
    /\ CreatedLines # {}

\* C7: the buffer before a step is a prefix of the buffer after it.
C7_AppendOnly == [][IsPrefix(terminal_output, terminal_output')]_vars

\* a later handler has appended its output to what an earlier one had logged
C7_Witness ==
    /\ handler = "on_sync" /\ CapturedSpawns # {}
    /\ Len(terminal_output) >= 6
    /\ terminal_output[1] = "No command entered."
    /\ terminal_output[3] = "Running pip-sync..."

\* what an event is: the fixed first token of a logged line, or the name of
\* the program a call ran or tried to run
StepLabel(e) ==
    IF e.kind = "log" THEN <<"log", IF e.text = <<>> THEN "" ELSE e.text[1]>>
    ELSE IF e.kind \in {"spawn", "spawn_failed"}
         THEN <<"run", e.argv[1][Len(e.argv[1])]>>
    ELSE <<e.kind, "">>

StepLabels == [i \in 1..Len(events) |-> StepLabel(events[i])]

OsDependencySteps ==
    IF os_name = "Linux" THEN <<<<"run", "sudo">>, <<"run", "sudo">>>>
    ELSE IF os_name = "Darwin" THEN <<<<"run", "brew">>>>
    ELSE IF os_name = "Windows"
         THEN <<<<"log", "Ensure Python is installed manually on Windows.">>>>
    ELSE <<<<"log", "Unsupported OS.">>>>

CreateSteps ==
    <<<<"log", "Checking OS dependencies...">>, <<"log", "Detected OS: ">>>>
    \o OsDependencySteps
    \o <<<<"log", "Creating virtual environment...">>, <<"run", "python">>,
         <<"log", "Virtual environment created at ">>,
         <<"log", "Installing pip-tools...">>, <<"run", "pip">>,
         <<"log", "pip-tools installed.">>>>

\* C8: on_create_venv takes its steps in one fixed order, and when every
\* child it calls is found and runs, it takes all of them and logs both
\* success lines, whatever the exit codes.
C8_CreateOrder ==
    handler = "on_create_venv" =>
        /\ IsPrefix(StepLabels, CreateSteps)
        /\ EventsOfKind("spawn_failed") = {} =>
            /\ StepLabels = CreateSteps
            /\ raised = "none"
            /\ selected_tab = "terminal"

\* on Linux all four children ran and every one of them exited nonzero
C8_Witness ==
    /\ handler = "on_create_venv" /\ os_name = "Linux"
    /\ Cardinality(EventsOfKind("spawn")) = 4
    /\ \A i \in EventsOfKind("spawn") : events[i].rc = 1
    /\ StepLabels = CreateSteps

\* C9 as stated: for a non-blank command run_shell_command spawns exactly one
\* child, whose PATH is the environment's binary directory, the path-list
\* separator and the host's PATH, and the host's environment is what it was.
C9_Original ==
    (handler = "run_shell_command" /\ ~IsBlankText(CmdRead)) =>
        /\ Cardinality(ShellSpawns) = 1
        /\ EventsOfKind("spawn") = ShellSpawns
        /\ \A i \in ShellSpawns :
            /\ "PATH" \in DOMAIN environ
            /\ events[i].env["PATH"] =
                   <<VENV_NAME, os_sep, PlatformBinDir, os_pathsep>> \o environ["PATH"]

\* C10 as stated: install_os_dependencies logs the OS, runs the package
\* manager on Linux (twice) and Darwin (once) and logs one line elsewhere, and
\* in every branch returns, so that on_create_venv goes on to create the
\* environment.
C10_Original ==
    handler = "on_create_venv" =>
        LET expected == <<<<"log", "Checking OS dependencies...">>,
                          <<"log", "Detected OS: ">>>>
                        \o OsDependencySteps
                        \o <<<<"log", "Creating virtual environment...">>,
                             <<"run", "python">>>>
        IN  /\ IsPrefix(expected, StepLabels)
            /\ \A i \in 1..Len(expected) : events[i].kind # "spawn_failed"
====
